---------------------------- MODULE Spec2Model ----------------------------
(***************************************************************************)
(* Essay platform (app.py, models.py): the Essay table, the request        *)
(* handlers index, save_essay, analyze_essay, history and download_pdf,    *)
(* and the word-by-word correction that save_essay and index perform.      *)
(*                                                                         *)
(* A text is a sequence of one-character strings.  Time is counted in      *)
(* minutes.  The handlers run atomically except save_essay, which is split *)
(* at db.session.add / db.session.commit so that the other handlers can    *)
(* run while an essay is pending in the session.                           *)
(***************************************************************************)
EXTENDS Integers, Sequences, FiniteSets, TLC

VARIABLES store, now, req, session, resp, spell

vars == <<store, now, req, session, resp, spell>>

(***************************************************************************)
(* Bounds of the model.                                                    *)
(***************************************************************************)
MaxEssays == 2

(***************************************************************************)
(* Characters and the str methods the handlers use.                        *)
(***************************************************************************)
IsSpace(c) == c = " "

IsUpper(c) == c \in {"A", "B"}

IsLower(c) == c \in {"a", "b"}

IsCased(c) == IsUpper(c) \/ IsLower(c)

IsDigit(c) == c \in {"0", "1", "2", "3", "4", "5", "6", "7", "8", "9"}

IsWordChar(c) == IsCased(c) \/ IsDigit(c) \/ c = "_"

LowerChar(c) == CASE c = "A" -> "a" [] c = "B" -> "b" [] OTHER -> c

UpperChar(c) == CASE c = "a" -> "A" [] c = "b" -> "B" [] OTHER -> c

lower(w) == [i \in 1..Len(w) |-> LowerChar(w[i])]

title(w) ==
  [i \in 1..Len(w) |->
     IF i > 1 /\ IsCased(w[i - 1]) THEN LowerChar(w[i]) ELSE UpperChar(w[i])]

istitle(w) ==
  /\ \E i \in 1..Len(w) : IsCased(w[i])
  /\ \A i \in 1..Len(w) :
       /\ IsUpper(w[i]) => (i = 1 \/ ~IsCased(w[i - 1]))
       /\ IsLower(w[i]) => (i > 1 /\ IsCased(w[i - 1]))

RECURSIVE SplitFrom(_, _, _)
SplitFrom(s, i, cur) ==
  IF i > Len(s)
    THEN (IF cur = <<>> THEN <<>> ELSE <<cur>>)
    ELSE IF IsSpace(s[i])
      THEN (IF cur = <<>> THEN <<>> ELSE <<cur>>) \o SplitFrom(s, i + 1, <<>>)
      ELSE SplitFrom(s, i + 1, Append(cur, s[i]))

split(s) == SplitFrom(s, 1, <<>>)

RECURSIVE join(_)
join(ws) ==
  IF ws = <<>> THEN <<>>
  ELSE IF Len(ws) = 1 THEN ws[1]
  ELSE ws[1] \o <<" ">> \o join(Tail(ws))

clean(word) == SelectSeq(word, LAMBDA c : IsWordChar(c) \/ IsSpace(c))

RECURSIVE FindWordsFrom(_, _, _)
FindWordsFrom(s, i, cur) ==
  IF i > Len(s)
    THEN (IF cur = <<>> THEN <<>> ELSE <<cur>>)
    ELSE IF ~IsWordChar(s[i])
      THEN (IF cur = <<>> THEN <<>> ELSE <<cur>>) \o FindWordsFrom(s, i + 1, <<>>)
      ELSE FindWordsFrom(s, i + 1, Append(cur, s[i]))

findall_words(s) == FindWordsFrom(s, 1, <<>>)

(***************************************************************************)
(* int(): an optional sign followed by decimal digits; anything else       *)
(* raises ValueError (ok = FALSE).                                         *)
(***************************************************************************)
DigitVal(c) ==
  CASE c = "0" -> 0 [] c = "1" -> 1 [] c = "2" -> 2 [] c = "3" -> 3
    [] c = "4" -> 4 [] c = "5" -> 5 [] c = "6" -> 6 [] c = "7" -> 7
    [] c = "8" -> 8 [] c = "9" -> 9

RECURSIVE DigitsVal(_)
DigitsVal(s) ==
  IF s = <<>> THEN 0
  ELSE 10 * DigitsVal(SubSeq(s, 1, Len(s) - 1)) + DigitVal(s[Len(s)])

AllDigits(s) == s # <<>> /\ \A i \in 1..Len(s) : IsDigit(s[i])

int(s) ==
  IF s # <<>> /\ s[1] \in {"+", "-"}
    THEN IF AllDigits(Tail(s))
           THEN [ok |-> TRUE,
                 val |-> IF s[1] = "-" THEN 0 - DigitsVal(Tail(s))
                                       ELSE DigitsVal(Tail(s))]
           ELSE [ok |-> FALSE, val |-> 0]
    ELSE IF AllDigits(s) THEN [ok |-> TRUE, val |-> DigitsVal(s)]
                         ELSE [ok |-> FALSE, val |-> 0]

(***************************************************************************)
(* Request parameters.  A field of request.form or request.args is either  *)
(* absent or present with a string value.                                  *)
(***************************************************************************)
Missing == [present |-> FALSE, value |-> <<>>]

Field(s) == [present |-> TRUE, value |-> s]

\* request.form.get('text'): None when the field is absent.
NoneText == <<"<None>">>

form_get(f) == IF f.present THEN f.value ELSE NoneText

\* Variant of Falsy: `original_text is None`, which lets the empty string pass.
Falsy_NoneOnly(t) == t = NoneText

\* `not original_text`: None and the empty string are falsy.
Falsy(t) == t = NoneText \/ t = <<>>

\* request.form.get(key, default, type=int): the default when the field is
\* absent or when int() raises ValueError.
form_get_int(f, default) ==
  IF ~f.present THEN default
  ELSE IF int(f.value).ok THEN int(f.value).val ELSE default

(***************************************************************************)
(* The spell checker: a dictionary, and a correction per unknown word.     *)
(* A word without a candidate yields None or the word itself, depending on *)
(* the installed pyspellchecker.                                           *)
(***************************************************************************)
SpellBuilds == {"none_without_candidate", "word_without_candidate"}

Dictionary == {<<"a", "b">>}

unknown(words) == {lower(words[i]) : i \in DOMAIN words} \ Dictionary

correction(word, build) ==
  IF word \in Dictionary THEN word
  ELSE IF word = <<"b", "a">> THEN <<"a", "b">>
  ELSE IF build = "none_without_candidate" THEN NoneText
  ELSE word

\* One iteration of the loop over words: the word appended to corrected_words.
CorrectedWord(word, misspelled, build) ==
  LET clean_word == clean(word) IN
    IF lower(clean_word) \in misspelled
      THEN LET c == correction(lower(clean_word), build) IN
             IF c = NoneText THEN NoneText
             ELSE IF istitle(clean_word) THEN title(c) ELSE c
      ELSE word

\* The correction of a non-empty text.  raised: correction() returned None,
\* so that None.title() or " ".join(...) raises.
Correct(original_text, build) ==
  LET words == split(original_text)
      misspelled == unknown(words)
      corrected_words ==
        [i \in 1..Len(words) |-> CorrectedWord(words[i], misspelled, build)]
  IN  IF \E i \in 1..Len(words) : corrected_words[i] = NoneText
        THEN [raised |-> TRUE, text |-> <<>>]
        ELSE [raised |-> FALSE, text |-> join(corrected_words)]

(***************************************************************************)
(* The Essay table.  A row is a record with the seven columns; an Essay    *)
(* object that is not yet inserted has neither id nor timestamp.           *)
(***************************************************************************)
\* Variant of Essay: the word and paragraph counts exchanged.
Essay_CountsSwapped(original_text, corrected_text, word_count, paragraph_count, backspace_count) ==
  [original_text |-> original_text, corrected_text |-> corrected_text,
   word_count |-> paragraph_count, paragraph_count |-> word_count,
   backspace_count |-> backspace_count]

Essay(original_text, corrected_text, word_count, paragraph_count, backspace_count) ==
  [original_text |-> original_text, corrected_text |-> corrected_text,
   word_count |-> word_count, paragraph_count |-> paragraph_count,
   backspace_count |-> backspace_count]

\* The integer primary key the database assigns to a new row.
NextId(S) ==
  IF S = {} THEN 1
  ELSE (CHOOSE i \in {e.id : e \in S} : \A e \in S : e.id <= i) + 1

\* Variant of Insert: the new row takes the place of the newest row.
Insert_Overwrite(S, e, t) ==
  LET last == NextId(S) - 1 IN
    {r \in S : r.id # last} \cup
      {[id |-> IF S = {} THEN 1 ELSE last, timestamp |-> t,
        original_text |-> e.original_text,
        corrected_text |-> e.corrected_text,
        word_count |-> e.word_count,
        paragraph_count |-> e.paragraph_count,
        backspace_count |-> e.backspace_count]}

\* The INSERT of a pending essay: id from the primary key, timestamp from
\* the column default datetime.utcnow.
Insert(S, e, t) ==
  S \cup {[id |-> NextId(S), timestamp |-> t,
           original_text |-> e.original_text,
           corrected_text |-> e.corrected_text,
           word_count |-> e.word_count,
           paragraph_count |-> e.paragraph_count,
           backspace_count |-> e.backspace_count]}

\* Variant of get_or_404: any row stands in for a missing one.
get_or_404_Any(S, essay_id) ==
  IF \E e \in S : e.id = essay_id THEN {e \in S : e.id = essay_id} ELSE S

\* Essay.query.get_or_404(essay_id): the rows with that id (none: 404).
get_or_404(S, essay_id) == {e \in S : e.id = essay_id}

SortedDesc(es) ==
  \A i, j \in 1..Len(es) : i < j => es[i].timestamp >= es[j].timestamp

\* Variant of order_by_timestamp_desc: ascending order.
order_by_timestamp_asc(S) ==
  {es \in [1..Cardinality(S) -> S] :
     /\ \A i, j \in 1..Cardinality(S) : i # j => es[i] # es[j]
     /\ \A i, j \in 1..Cardinality(S) :
          i < j => es[i].timestamp <= es[j].timestamp}

\* .order_by(Essay.timestamp.desc()).all(): every listing of the rows in
\* descending timestamp order (rows of equal timestamp in any order).
order_by_timestamp_desc(S) ==
  {es \in [1..Cardinality(S) -> S] :
     /\ \A i, j \in 1..Cardinality(S) : i # j => es[i] # es[j]
     /\ SortedDesc(es)}

(***************************************************************************)
(* history: the parsed minutes parameter and the query.                    *)
(***************************************************************************)
DefaultMinutes == 60

ArchiveMinutes == 60

\* Variant of history_minutes: ValueError falls back to 0 instead of 60.
history_minutes_ZeroOnError(arg) ==
  LET minutes_str == IF arg.present THEN arg.value ELSE <<"6", "0">> IN
    IF int(minutes_str).ok THEN int(minutes_str).val ELSE 0

history_minutes(arg) ==
  LET minutes_str == IF arg.present THEN arg.value ELSE <<"6", "0">> IN
    IF int(minutes_str).ok THEN int(minutes_str).val ELSE DefaultMinutes

\* Variant of history_query: a negative window other than -1 is read as 60.
history_query_NegativeAsDefault(S, t, minutes) ==
  IF minutes = -1
    THEN order_by_timestamp_desc({e \in S : e.timestamp < t - ArchiveMinutes})
    ELSE IF minutes < 0
      THEN order_by_timestamp_desc({e \in S : e.timestamp >= t - DefaultMinutes})
      ELSE order_by_timestamp_desc({e \in S : e.timestamp >= t - minutes})

history_query(S, t, minutes) ==
  IF minutes = -1
    THEN order_by_timestamp_desc({e \in S : e.timestamp < t - ArchiveMinutes})
    ELSE order_by_timestamp_desc({e \in S : e.timestamp >= t - minutes})

(***************************************************************************)
(* download_pdf: the HTML handed to pisa.CreatePDF and the file name.      *)
(***************************************************************************)
html_content(essay) ==
  <<"<h2>Corrected Essay</h2><p>", essay.corrected_text, "</p><hr>",
    "<p><strong>Original Text:</strong></p><p>", essay.original_text, "</p>">>

download_name(essay_id) == <<"essay_", essay_id, ".pdf">>

(***************************************************************************)
(* Inputs.                                                                 *)
(***************************************************************************)
Form(text, wordCount, paragraphCount, backspaceCount) ==
  [text |-> text, wordCount |-> wordCount, paragraphCount |-> paragraphCount,
   backspaceCount |-> backspaceCount]

Forms ==
  { Form(Missing, Field(<<"6">>), Field(<<"2">>), Field(<<"1">>)),
    Form(Field(<<>>), Field(<<"6">>), Field(<<"x">>), Missing),
    Form(Field(<<" ">>), Missing, Field(<<"x">>), Field(<<"3">>)),
    Form(Field(<<" ", "B", "a", " ", "a", "b", ",", " ", "b", "b">>),
         Field(<<"6">>), Field(<<"2">>), Missing) }

IndexTexts ==
  { Missing, Field(<<>>), Field(<<"B", "a", " ", "a", "b", ",">>),
    Field(<<"b", "b">>) }

MinutesArgs ==
  { Missing, Field(<<"a", "b">>), Field(<<"6", "0">>),
    Field(<<"-", "1">>), Field(<<"-", "2">>), Field(<<"-", "3", "0">>) }

EssayIds == 1..MaxEssays

\* The instants, in minutes, at which the clock is read.
Instants == {0, 60, 130}

(***************************************************************************)
(* State.  store: the committed rows of the Essay table.  now: the value   *)
(* of datetime.utcnow().  req: the form of the save request whose essay is *)
(* pending.  session: the objects added to db.session and not committed.   *)
(* resp: the last response sent.  spell: the installed spell checker.      *)
(***************************************************************************)
Response(route, request, status, body) ==
  [route |-> route, request |-> request, status |-> status, body |-> body]

Init ==
  /\ store = {}
  /\ now = 0
  /\ req = <<>>
  /\ session = <<>>
  /\ resp = Response("none", <<>>, 0, <<>>)
  /\ spell \in SpellBuilds

\* datetime.utcnow() is the wall clock: it advances, and it can be set back.
ClockAdvance ==
  /\ \E t \in Instants : t > now /\ now' = t
  /\ UNCHANGED <<store, req, session, resp, spell>>

ClockSetBack ==
  /\ \E t \in Instants : t < now /\ now' = t
  /\ UNCHANGED <<store, req, session, resp, spell>>

\* GET /
index_get ==
  /\ resp' = Response("index", <<"GET">>, 200,
                      [template |-> "index.html"])
  /\ UNCHANGED <<store, now, req, session, spell>>

\* Variant of index_post: a missing text aborts with 400.
index_post_Abort(text) ==
  /\ LET original_text == form_get(text) IN
       IF Falsy(original_text)
         THEN resp' = Response("index", <<"POST", text>>, 400,
                               [error |-> "No text provided"])
         ELSE LET c == Correct(original_text, spell) IN
           IF c.raised
             THEN resp' = Response("index", <<"POST", text>>, 500,
                                   [error |-> "Internal Server Error"])
             ELSE resp' = Response("index", <<"POST", text>>, 200,
                    [template |-> "index.html",
                     original_text |-> original_text,
                     corrected_text |-> c.text])
  /\ UNCHANGED <<store, now, req, session, spell>>

\* POST /
index_post(text) ==
  /\ LET original_text == form_get(text) IN
       IF Falsy(original_text)
         THEN resp' = Response("index", <<"POST", text>>, 200,
                [template |-> "index.html", original_text |-> <<>>,
                 corrected_text |-> <<"Error: No text provided.">>])
         ELSE LET c == Correct(original_text, spell) IN
           IF c.raised
             THEN resp' = Response("index", <<"POST", text>>, 500,
                                   [error |-> "Internal Server Error"])
             ELSE resp' = Response("index", <<"POST", text>>, 200,
                    [template |-> "index.html",
                     original_text |-> original_text,
                     corrected_text |-> c.text])
  /\ UNCHANGED <<store, now, req, session, spell>>

\* POST /save up to db.session.add(new_essay).  One accepted save is in
\* flight at a time; a rejected one can arrive at any moment.
save_essay(f) ==
  /\ LET original_text == form_get(f.text)
         word_count == form_get_int(f.wordCount, 0)
         paragraph_count == form_get_int(f.paragraphCount, 0)
         backspace_count == form_get_int(f.backspaceCount, 0)
     IN IF Falsy(original_text)
          THEN /\ resp' = Response("save", f, 400,
                                   [error |-> "No text provided"])
               /\ UNCHANGED <<req, session>>
          ELSE LET c == Correct(original_text, spell) IN
            IF c.raised
              THEN /\ resp' = Response("save", f, 500,
                                       [error |-> "Internal Server Error"])
                   /\ UNCHANGED <<req, session>>
              ELSE /\ session = <<>>
                   /\ Cardinality(store) < MaxEssays
                   /\ req' = <<f>>
                   /\ session' = <<Essay(original_text, c.text, word_count,
                                         paragraph_count, backspace_count)>>
                   /\ UNCHANGED resp
  /\ UNCHANGED <<store, now, spell>>

\* db.session.commit() succeeds.
save_commit ==
  /\ session # <<>>
  /\ store' = Insert(store, session[1], now)
  /\ session' = <<>>
  /\ req' = <<>>
  /\ resp' = Response("save", req[1], 200,
                      [message |-> "Essay saved successfully"])
  /\ UNCHANGED <<now, spell>>

\* Variant of save_rollback: the failed write leaves its row behind.
save_rollback_RowLeft ==
  /\ session # <<>>
  /\ Cardinality(store) < MaxEssays
  /\ store' = Insert(store, session[1], now)
  /\ session' = <<>>
  /\ req' = <<>>
  /\ resp' = Response("save", req[1], 500,
                      [error |-> "Could not save essay to the database."])
  /\ UNCHANGED <<now, spell>>

\* db.session.commit() raises: rollback, and the generic error.
save_rollback ==
  /\ session # <<>>
  /\ session' = <<>>
  /\ req' = <<>>
  /\ resp' = Response("save", req[1], 500,
                      [error |-> "Could not save essay to the database."])
  /\ UNCHANGED <<store, now, spell>>

\* GET /analyze/<essay_id>
analyze_essay(essay_id) ==
  /\ LET found == get_or_404(store, essay_id) IN
       IF found = {}
         THEN resp' = Response("analyze", essay_id, 404, [error |-> "Not Found"])
         ELSE LET essay == CHOOSE e \in found : TRUE
                  words == findall_words(lower(essay.original_text))
              IN resp' = Response("analyze", essay_id, 200,
                           [template |-> "analysis.html", essay |-> essay,
                            errors |-> unknown(words)])
  /\ UNCHANGED <<store, now, req, session, spell>>

\* GET /history?minutes=<arg>
history(arg) ==
  /\ LET minutes == history_minutes(arg) IN
       \E essays \in history_query(store, now, minutes) :
         resp' = Response("history", arg, 200,
                   [template |-> "history.html", essays |-> essays,
                    selected_minutes |-> minutes])
  /\ UNCHANGED <<store, now, req, session, spell>>

\* GET /download/<essay_id>
download_pdf(essay_id) ==
  /\ LET found == get_or_404(store, essay_id) IN
       IF found = {}
         THEN resp' = Response("download", essay_id, 404, [error |-> "Not Found"])
         ELSE LET essay == CHOOSE e \in found : TRUE IN
           resp' = Response("download", essay_id, 200,
                     [pdf |-> html_content(essay),
                      download_name |-> download_name(essay_id)])
  /\ UNCHANGED <<store, now, req, session, spell>>

Next ==
  \/ ClockAdvance
  \/ ClockSetBack
  \/ index_get
  \/ \E text \in IndexTexts : index_post(text)
  \/ \E f \in Forms : save_essay(f)
  \/ save_commit
  \/ save_rollback
  \/ \E essay_id \in EssayIds : analyze_essay(essay_id)
  \/ \E arg \in MinutesArgs : history(arg)
  \/ \E essay_id \in EssayIds : download_pdf(essay_id)

Spec == Init /\ [][Next]_vars

(***************************************************************************)
(* Properties.                                                             *)
(***************************************************************************)
Range(f) == {f[i] : i \in DOMAIN f}

EmptyOrMissing(field) == ~field.present \/ field.value = <<>>

\* C1: POST /save with text missing or empty answers 400, whatever counts
\* are supplied, and neither the store nor the session gains a record.
C1_EmptyTextRejected ==
  [][\A f \in Forms :
       (EmptyOrMissing(f.text) /\ save_essay(f)) =>
         /\ resp'.route = "save" /\ resp'.status = 400
         /\ store' = store
         /\ session' = session]_vars

C1_Witness ==
  /\ resp.route = "save"
  /\ resp.status = 400
  /\ resp.request.text = Field(<<>>)
  /\ resp.request.wordCount = Field(<<"6">>)
  /\ store # {}

\* The count a form field submits: its integer value, 0 when it is absent
\* (or is no integer).
SubmittedCount(field) ==
  IF field.present /\ int(field.value).ok THEN int(field.value).val ELSE 0

\* C2: a successful POST /save adds exactly one record, and the lookup of
\* that record by its id yields the submitted text, the correction computed
\* for it, and the submitted counts (0 for a count not supplied).
C2_SaveRoundTrip ==
  [][save_commit =>
       LET f == req[1]
           new == store' \ store
       IN /\ resp'.status = 200
          /\ Cardinality(new) = 1
          /\ \A e \in new :
               /\ get_or_404(store', e.id) = {e}
               /\ e.original_text = f.text.value
               /\ e.corrected_text = Correct(f.text.value, spell).text
               /\ e.word_count = SubmittedCount(f.wordCount)
               /\ e.paragraph_count = SubmittedCount(f.paragraphCount)
               /\ e.backspace_count = SubmittedCount(f.backspaceCount)]_vars

C2_Witness ==
  /\ resp.route = "save"
  /\ resp.status = 200
  /\ \E e \in store :
       /\ e.id = 2
       /\ e.original_text = resp.request.text.value
       /\ e.corrected_text = <<"A", "b", " ", "a", "b", ",", " ", "b", "b">>
       /\ e.word_count = 6 /\ e.paragraph_count = 2 /\ e.backspace_count = 0

\* C3: minutes=60 returns no essay older than now - 60; minutes=-1 returns
\* only essays older than now - 60; a missing or non-numeric minutes returns
\* what minutes=60 returns.
C3_HistoryWindow ==
  [][\A arg \in MinutesArgs :
       (resp'.route = "history" /\ resp'.request = arg /\ history(arg)) =>
         LET essays == resp'.body.essays IN
           /\ arg = Field(<<"6", "0">>) =>
                \A i \in 1..Len(essays) : ~(essays[i].timestamp < now - 60)
           /\ arg = Field(<<"-", "1">>) =>
                \A i \in 1..Len(essays) : essays[i].timestamp < now - 60
           /\ (~arg.present \/ arg = Field(<<"a", "b">>)) =>
                /\ essays \in history_query(store, now, 60)
                /\ Range(essays) = {e \in store : e.timestamp >= now - 60}]_vars

C3_Witness ==
  /\ resp.route = "history"
  /\ resp.request = Field(<<"a", "b">>)
  /\ Len(resp.body.essays) = 1
  /\ \E e \in store : e.timestamp < now - 60
  /\ resp.body.essays[1].timestamp >= now - 60
  /\ resp.body.selected_minutes = 60

NegativeArgs == {arg \in MinutesArgs :
                   arg.present /\ int(arg.value).ok /\ int(arg.value).val < -1}

\* C4 as stated: a negative minutes other than -1 returns what minutes=60
\* returns at the same instant on the same store.
C4_NegativeAsSixty ==
  [][\A arg \in NegativeArgs :
       (resp'.route = "history" /\ history(arg)) =>
         resp'.body.essays \in history_query(store, now, 60)]_vars

\* C4 amended: a negative minutes other than -1 returns exactly the essays
\* whose timestamp is at or after now + |minutes|, a part of what minutes=60
\* returns; the two differ when an essay lies between now - 60 and that
\* cutoff.
C4_NegativeIsFutureCutoff ==
  [][\A arg \in NegativeArgs :
       (resp'.route = "history" /\ history(arg)) =>
         LET essays == resp'.body.essays
             m == int(arg.value).val
         IN /\ Range(essays) = {e \in store : e.timestamp >= now + (0 - m)}
            /\ Len(essays) = Cardinality(Range(essays))
            /\ Range(essays) \subseteq {e \in store : e.timestamp >= now - 60}
            /\ (essays \in history_query(store, now, 60)) <=>
                 ~\E e \in store :
                    e.timestamp >= now - 60 /\ e.timestamp < now + (0 - m)
            /\ resp'.body.selected_minutes = m]_vars

C4_Witness ==
  /\ resp.route = "history"
  /\ resp.request = Field(<<"-", "3", "0">>)
  /\ resp.body.essays = <<>>
  /\ \E e \in store : e.timestamp >= now - 60 /\ e.timestamp <= now

\* C5: the list a history response holds is in descending timestamp order.
C5_HistoryDescending ==
  resp.route = "history" =>
    \A i, j \in 1..Len(resp.body.essays) :
      i < j => resp.body.essays[i].timestamp >= resp.body.essays[j].timestamp

C5_Witness ==
  /\ resp.route = "history"
  /\ resp.request = Field(<<"-", "1">>)
  /\ Len(resp.body.essays) = 2
  /\ resp.body.essays[1].timestamp > resp.body.essays[2].timestamp
  /\ resp.body.essays[1].id < resp.body.essays[2].id

\* C6: the store is append-only: every record that exists still exists
\* after any step, with the same id, texts, timestamp and counts, and no id
\* is given to another record.
C6_AppendOnly ==
  [][/\ store \subseteq store'
     /\ \A e \in store : \A e2 \in store' : e2.id = e.id => e2 = e]_vars

C6_Witness ==
  /\ Cardinality(store) = 2
  /\ resp.route = "save"
  /\ resp.status = 200
  /\ \E e \in store : e.timestamp > now

\* C7 as stated: every stored record has a non-empty originalText and a
\* non-empty correctedText.
C7_TextsNonEmpty ==
  \A e \in store : e.original_text # <<>> /\ e.corrected_text # <<>>

EssayColumns ==
  {"id", "original_text", "corrected_text", "timestamp", "word_count",
   "paragraph_count", "backspace_count"}

\* C8: a failed database write answers 500 with the generic message and adds
\* nothing to the store; every step adds one complete record or nothing;
\* and the essays a reader returns are records of the store.
C8_AtomicSave ==
  [][/\ save_rollback =>
          /\ resp'.status = 500
          /\ resp'.body = [error |-> "Could not save essay to the database."]
          /\ store' = store
          /\ session' = <<>>
     /\ \/ store' = store
        \/ \E e \in store' \ store :
             /\ store' = store \cup {e}
             /\ DOMAIN e = EssayColumns
             /\ e.original_text = session[1].original_text
             /\ e.corrected_text = session[1].corrected_text
     /\ (resp'.route = "history"
           /\ \E arg \in MinutesArgs : resp'.request = arg /\ history(arg)) =>
          Range(resp'.body.essays) \subseteq store
     /\ (resp'.route = "analyze"
           /\ \E i \in EssayIds : resp'.request = i /\ analyze_essay(i)) =>
          (resp'.status = 200 => resp'.body.essay \in store)]_vars

C8_Witness ==
  /\ resp.route = "save"
  /\ resp.status = 500
  /\ resp.body = [error |-> "Could not save essay to the database."]
  /\ resp.request.text = Field(<<" ">>)
  /\ Cardinality(store) = 1

\* C9: GET /download/<id> for an unknown id answers 404 without a document;
\* for a known id the document is named essay_<id>.pdf and is built from the
\* essay's corrected text and original text; the store is unchanged.
C9_Download ==
  [][\A i \in EssayIds :
       download_pdf(i) =>
         /\ store' = store
         /\ (\A e \in store : e.id # i) =>
              /\ resp'.status = 404
              /\ "pdf" \notin DOMAIN resp'.body
         /\ \A e \in store :
              e.id = i =>
                /\ resp'.status = 200
                /\ resp'.body.download_name = <<"essay_", i, ".pdf">>
                /\ resp'.body.pdf[2] = e.corrected_text
                /\ resp'.body.pdf[5] = e.original_text]_vars

C9_Witness ==
  /\ resp.route = "download"
  /\ resp.status = 404
  /\ resp.request = 2
  /\ Cardinality(store) = 1

\* C10 as stated: POST / with text missing or empty answers 400, without
\* correction and without persistence.
C10_IndexRejects400 ==
  [][\A text \in IndexTexts :
       (EmptyOrMissing(text) /\ index_post(text)) =>
         /\ resp'.status = 400
         /\ store' = store
         /\ session' = session]_vars

\* C10 amended: POST / with text missing or empty answers 200 with the page
\* whose corrected text is the message "Error: No text provided." and whose
\* original text is empty, without correction and without persistence.
C10_IndexRendersError ==
  [][\A text \in IndexTexts :
       (EmptyOrMissing(text) /\ index_post(text)) =>
         /\ resp'.status = 200
         /\ resp'.body.original_text = <<>>
         /\ resp'.body.corrected_text = <<"Error: No text provided.">>
         /\ store' = store
         /\ session' = session]_vars

C10_Witness ==
  /\ resp.route = "index"
  /\ resp.status = 200
  /\ resp.request = <<"POST", Missing>>
  /\ resp.body.corrected_text = <<"Error: No text provided.">>
  /\ store # {}
=============================================================================
